---- MODULE Spec2Model ----
(***************************************************************************)
(* The semaphore self-test of the firmware (semtest.c, kept in             *)
(* src/unnamed/part_001): vStartSemaphoreTasks creates two groups of two   *)
(* tasks, every task runs prvSemaphoreTest, and a supervisor polls         *)
(* xAreSemaphoreTasksStillRunning.                                         *)
(*                                                                         *)
(* Tasks are preempted between any two statements that touch shared        *)
(* state, so every such statement is one action and pc[t] is the place of  *)
(* task t in prvSemaphoreTest.  The binary semaphore, the heap and the     *)
(* tick configuration belong to the runtime; they are the environment of   *)
(* the harness and are fixed by Init (a nominal one for Spec, wider ones   *)
(* for the other specifications).                                          *)
(***************************************************************************)
EXTENDS Integers, FiniteSets

(***************************************************************************)
(* Bounds of the model.                                                    *)
(***************************************************************************)
\* The two counting limits are scaled down from 0xff and 0xfff (lines 85-86):
\* the counting loop is modelled step by step and only its length changes.
semtstNON_BLOCKING_EXPECTED_VALUE == 1
semtstBLOCKING_EXPECTED_VALUE == 2
\* Cycles (successful takes) one task may start, and supervisor calls.
MaxCycles == 1
MaxPolls == 2
\* Cycles one task may start when the semaphore under test is defective.
MaxFaultCycles == 2
\* Preemptions in one run: switches away from a task that could have gone on.
\* Switches at a yield, a delay, a blocked take or a return are not counted.
MaxPreempt == 1
\* Preemptions in one run with a defective semaphore: a task that has
\* faulted once faults silently in a later read-back only after two more.
MaxFaultPreempt == 3
\* Largest value of a check variable in the runs that never end, where the
\* tasks are followed through any number of cycles and only the changes of
\* a check variable matter: it wraps after this value as a short does after
\* 32767.
LiveShortMax == 1

(***************************************************************************)
(* Program constants.                                                      *)
(***************************************************************************)
semtstNUM_TASKS == 4
semtstDELAY_FACTOR == 10
xBlockTimeMs == 100
\* 'short' is 16 bits wide on this target.
SHRT_MAX == 32767
SHRT_MIN == -32768

pdTRUE == TRUE
pdFALSE == FALSE
NULL == "NULL"

\* Task and group slots, with room for two calls of vStartSemaphoreTasks:
\* call c creates groups 2c (polling) and 2c+1 (blocking); group g owns
\* tasks 2g and 2g+1.
Groups == 0 .. (semtstNUM_TASKS - 1)
Tasks == 0 .. (2 * semtstNUM_TASKS - 1)
Indices == 0 .. (semtstNUM_TASKS - 1)
Grp(t) == t \div 2
Peer(t) == IF t % 2 = 0 THEN t + 1 ELSE t - 1
IsPollingGroup(g) == g % 2 = 0
\* Who holds the processor: a task, the supervisor, or no one.
Supervisor == 2 * semtstNUM_TASKS
NoOne == Supervisor + 1

VARIABLES
  \* environment, fixed by Init
  portTICK_PERIOD_MS,   \* tick period of the build
  heapFails,            \* the allocation sites at which the allocator returns NULL
  startCalls,           \* how often the application calls vStartSemaphoreTasks
  primitiveBroken,      \* the semaphore under test may grant a take while it is held
  cycleCap,             \* cycles one task may start in this run
  preemptCap,           \* preemptions in this run; both caps: 0 for no limit
  shortMax,             \* the largest value of a short
  \* vStartSemaphoreTasks
  started,              \* calls made so far
  crashed,              \* a store through a NULL pointer faulted
  spawned,              \* the groups whose two tasks were created
  xSemaphore,           \* per group: the count of the binary semaphore (1: free)
  pulSharedVariable,    \* per group: NULL or "cell"
  cell,                 \* per group: the value of the shared variable
  xBlockTime,           \* per group: pxParameters->xBlockTime
  \* prvSemaphoreTest, per task
  pc, sCheckVariableToUse, ulExpectedValue, ulCounter, sError,
  xTicksToDelay,        \* per task: the argument of its latest vTaskDelay (-1: none yet)
  \* file scope
  sCheckVariables, sNextCheckVariable,
  \* xAreSemaphoreTasksStillRunning
  sLastCheckVariables, chkPc, xTask, xReturn,
  xCompared,            \* the value of sCheckVariables[xTask] read at line 276
  \* the single processor
  running,              \* who ran last and has not given the processor up
  preempts,             \* preemptions so far
  \* history, not program state
  cycles,               \* per task: cycles started (successful takes)
  cycFault,             \* per task: a check of the current cycle failed
  cycPrints,            \* per task: error messages printed in the current cycle
  polls,                \* supervisor calls begun
  changed,              \* per index: the comparison of the current call found a change
  incNow,               \* per index: incremented since the current call began
  incPrev,              \* per index: incremented between the two latest call starts
  stepNow,              \* per group: a task stepped since the current call began
  stepPrev,             \* per group: a task stepped between the two latest call starts
  quietGap              \* no task stepped since the previous call returned

envVars == << portTICK_PERIOD_MS, heapFails, startCalls, primitiveBroken, cycleCap,
             preemptCap, shortMax >>
startVars == << started, crashed, spawned, xSemaphore, pulSharedVariable, xBlockTime >>
taskVars == << pc, sCheckVariableToUse, ulExpectedValue, ulCounter, sError >>
chkVars == << sLastCheckVariables, chkPc, xTask, xReturn, xCompared >>
cycVars == << cycles, cycFault, cycPrints >>
callHist == << polls, changed, incNow, incPrev, stepNow, stepPrev, quietGap >>

cpuVars == << running, preempts >>

vars == << envVars, startVars, cell, taskVars, xTicksToDelay, sCheckVariables,
           sNextCheckVariable, chkVars, cpuVars, cycVars, callHist >>

(***************************************************************************)
(* The runtime the harness consumes.                                       *)
(***************************************************************************)
AllocSites == { "params1", "sem1", "var1", "params2", "sem2", "var2" }

\* pvPortMalloc / vSemaphoreCreateBinary at a site: NULL when the site fails.
Allocated(site) == site \notin heapFails

\* xSemaphoreTake on a binary semaphore holding 'count': the results the
\* primitive can give.  A correct one passes exactly when count = 1.
xSemaphoreTake(count) ==
  IF count = 1 THEN { pdTRUE }
  ELSE IF primitiveBroken THEN { pdTRUE, pdFALSE } ELSE { pdFALSE }

\* xSemaphoreGive: rejected when the semaphore is already available.
xSemaphoreGive(count) == IF count = 0 THEN pdTRUE ELSE pdFALSE

\* Values a load through a NULL pulSharedVariable may return.
NullLoads == 0 .. (semtstBLOCKING_EXPECTED_VALUE + 1)

\* The values '*pulSharedVariable' may read in group g.
Loads(g) == IF pulSharedVariable[g] = NULL THEN NullLoads ELSE { cell[g] }

\* 'x++' on a short: the sum is converted back to the width of a short
\* (16 bits: from SHRT_MAX to SHRT_MIN).
ShortInc(x) == IF x = shortMax THEN -shortMax - 1 ELSE x + 1

(***************************************************************************)
(* Initial states.  The program state is that of the statics of the file   *)
(* (lines 106-107, 271) before vStartSemaphoreTasks is called.             *)
(***************************************************************************)
ProgramInit(first) ==
  /\ started = 0
  /\ crashed = FALSE
  /\ spawned = {}
  /\ xSemaphore = [g \in Groups |-> 0]
  /\ pulSharedVariable = [g \in Groups |-> NULL]
  /\ cell = [g \in Groups |-> 0]
  /\ xBlockTime = [g \in Groups |-> 0]
  /\ pc = [t \in Tasks |-> "none"]
  /\ sCheckVariableToUse = [t \in Tasks |-> 0]
  /\ ulExpectedValue = [t \in Tasks |-> 0]
  /\ ulCounter = [t \in Tasks |-> 0]
  /\ sError = [t \in Tasks |-> pdFALSE]
  /\ xTicksToDelay = [t \in Tasks |-> -1]
  /\ sCheckVariables = [i \in Indices |-> first]
  /\ sNextCheckVariable = 0
  /\ sLastCheckVariables = [i \in Indices |-> first]
  /\ chkPc = "idle"
  /\ xTask = 0
  /\ xReturn = pdTRUE
  /\ xCompared = first
  /\ running = NoOne
  /\ preempts = 0
  /\ cycles = [t \in Tasks |-> 0]
  /\ cycFault = [t \in Tasks |-> FALSE]
  /\ cycPrints = [t \in Tasks |-> 0]
  /\ polls = 0
  /\ changed = [i \in Indices |-> FALSE]
  /\ incNow = [i \in Indices |-> FALSE]
  /\ incPrev = [i \in Indices |-> FALSE]
  /\ stepNow = [g \in Groups |-> FALSE]
  /\ stepPrev = [g \in Groups |-> FALSE]
  /\ quietGap = FALSE

\* The nominal environment: a 1 ms tick, a heap that serves every request,
\* a correct semaphore, and one call of vStartSemaphoreTasks.
Init ==
  /\ portTICK_PERIOD_MS = 1
  /\ heapFails = {}
  /\ startCalls = 1
  /\ primitiveBroken = FALSE
  /\ cycleCap = MaxCycles
  /\ preemptCap = MaxPreempt
  /\ shortMax = SHRT_MAX
  /\ ProgramInit(0)

(***************************************************************************)
(* vStartSemaphoreTasks (lines 115-163).                                   *)
(***************************************************************************)
\* What lines 121-142 (or 147-161) make of one group: "none" when the
\* parameter block or the semaphore is NULL, else the tasks are created,
\* with the shared variable ("ok") or with a NULL pulSharedVariable
\* ("nullvar": line 131/155 is not checked before the store of line 134/156).
GroupOutcome(params, sem, var) ==
  IF ~Allocated(params) THEN "none"
  ELSE IF ~Allocated(sem) THEN "none"
  ELSE IF Allocated(var) THEN "ok" ELSE "nullvar"

\* Lines 134 and 156: the value the shared variable of group g starts with.
InitialValue(g) ==
  IF IsPollingGroup(g) THEN semtstNON_BLOCKING_EXPECTED_VALUE
  ELSE semtstBLOCKING_EXPECTED_VALUE

\* pxSecondSemaphoreParameters->xBlockTime (line 157).
SecondBlockTime == xBlockTimeMs \div portTICK_PERIOD_MS

vStartSemaphoreTasks ==
  /\ ~crashed
  /\ started < startCalls
  /\ \E storeFaults \in BOOLEAN :  \* the store through NULL: a fault, or dropped
       LET g1 == 2 * started
           g2 == 2 * started + 1
           o1 == GroupOutcome("params1", "sem1", "var1")
           crash1 == o1 = "nullvar" /\ storeFaults
           o2 == IF crash1 THEN "none" ELSE GroupOutcome("params2", "sem2", "var2")
           crash2 == o2 = "nullvar" /\ storeFaults
           out(g) == IF g = g1 THEN o1 ELSE IF g = g2 THEN o2 ELSE "none"
           died(g) == (g = g1 /\ crash1) \/ (g = g2 /\ crash2)
           made(g) == out(g) # "none" /\ ~died(g)
       IN
         /\ crashed' = (crash1 \/ crash2)
         /\ spawned' = spawned \cup { g \in {g1, g2} : made(g) }
         /\ xSemaphore' = [g \in Groups |-> IF out(g) # "none" THEN 1 ELSE xSemaphore[g]]
         /\ pulSharedVariable' =
              [g \in Groups |-> IF out(g) = "ok" THEN "cell" ELSE pulSharedVariable[g]]
         /\ cell' = [g \in Groups |->
                       IF out(g) = "ok" THEN InitialValue(g) ELSE cell[g]]
         /\ xBlockTime' = [g \in Groups |->
                             IF made(g) /\ g = g2 THEN SecondBlockTime
                             ELSE IF made(g) THEN 0 ELSE xBlockTime[g]]
         /\ pc' = [t \in Tasks |-> IF made(Grp(t)) THEN "start" ELSE pc[t]]
  /\ started' = started + 1
  /\ UNCHANGED << envVars, xTicksToDelay, sCheckVariableToUse, ulExpectedValue, ulCounter, sError,
                  sCheckVariables, sNextCheckVariable, chkVars, cpuVars, cycVars,
                  callHist >>

(***************************************************************************)
(* prvSemaphoreTest (lines 166-265), one action per preemptible step.      *)
(***************************************************************************)
\* A task waiting in a timed xSemaphoreTake does not hold the processor.
Waiting(a) ==
  /\ a \in Tasks
  /\ pc[a] = "take"
  /\ xBlockTime[Grp(a)] > 0
  /\ xSemaphore[Grp(a)] = 0

\* The single processor: actor a runs on when it ran last; it takes over
\* for free when the last one gave the processor up, and by a preemption
\* otherwise.  'rests' says that a gives the processor up with this step.
Scheduled(a, rests) ==
  /\ \/ /\ running = a \/ running = NoOne \/ Waiting(running)
        /\ preempts' = preempts
     \/ /\ running # a /\ running # NoOne /\ ~Waiting(running)
        /\ preemptCap = 0 \/ preempts < preemptCap
        /\ preempts' = IF preemptCap = 0 THEN preempts ELSE preempts + 1
  /\ running' = IF rests THEN NoOne ELSE a

\* Scheduling and history of every step of task t.
Stepped(t, rests) ==
  /\ Scheduled(t, rests)
  /\ stepNow' = [stepNow EXCEPT ![Grp(t)] = TRUE]
  /\ quietGap' = FALSE
  /\ UNCHANGED << polls, changed, stepPrev >>

\* Line 177: sNextCheckVariable++.
NextCheckVariable(n) == ShortInc(n)

\* Mutant of AllocIndex: lines 176-177 outside the critical section, so the
\* increment may be lost to a task that read the same value.
AllocIndexUnprotected(t) ==
  /\ ~crashed
  /\ pc[t] = "start"
  /\ sCheckVariableToUse' = [sCheckVariableToUse EXCEPT ![t] = sNextCheckVariable]
  /\ sNextCheckVariable' \in { sNextCheckVariable, NextCheckVariable(sNextCheckVariable) }
  /\ pc' = [pc EXCEPT ![t] = "setup"]
  /\ Stepped(t, FALSE)
  /\ UNCHANGED << envVars, xTicksToDelay, startVars, cell, ulExpectedValue, ulCounter, sError,
                  sCheckVariables, chkVars, cycVars, incNow, incPrev >>

\* Lines 175-178, one critical section: take the next index.
AllocIndex(t) ==
  /\ ~crashed
  /\ pc[t] = "start"
  /\ sCheckVariableToUse' = [sCheckVariableToUse EXCEPT ![t] = sNextCheckVariable]
  /\ sNextCheckVariable' = NextCheckVariable(sNextCheckVariable)
  /\ pc' = [pc EXCEPT ![t] = "setup"]
  /\ Stepped(t, FALSE)
  /\ UNCHANGED << envVars, xTicksToDelay, startVars, cell, ulExpectedValue, ulCounter, sError,
                  sCheckVariables, chkVars, cycVars, incNow, incPrev >>

\* Mutant of ExpectedFor: the block time is not consulted.
ExpectedForAnyGroup(blockTime) == semtstNON_BLOCKING_EXPECTED_VALUE

\* Lines 190-197: the value the task counts to, chosen from the block time.
ExpectedFor(blockTime) ==
  IF blockTime > 0 THEN semtstBLOCKING_EXPECTED_VALUE
  ELSE semtstNON_BLOCKING_EXPECTED_VALUE

\* Lines 181-197: start message, parameters, expected value.
TaskSetup(t) ==
  /\ ~crashed
  /\ pc[t] = "setup"
  /\ ulExpectedValue' = [ulExpectedValue EXCEPT ![t] = ExpectedFor(xBlockTime[Grp(t)])]
  /\ pc' = [pc EXCEPT ![t] = "take"]
  /\ Stepped(t, FALSE)
  /\ UNCHANGED << envVars, xTicksToDelay, startVars, cell, sCheckVariableToUse, ulCounter, sError,
                  sCheckVariables, sNextCheckVariable, chkVars, cycVars,
                  incNow, incPrev >>

\* Mutants of TakeSucceeded: the result of xSemaphoreTake is not tested; it
\* is compared with a value the call never returns.
TakeResultIgnored(res) == TRUE
TakeNeverPasses(res) == FALSE

\* Line 202: the branch taken on the result of xSemaphoreTake.
TakeSucceeded(res) == res = pdTRUE

\* Line 202: xSemaphoreTake with the group's block time.  A failure is a
\* poll miss (block time 0) or a timeout.
Take(t) ==
  /\ ~crashed
  /\ pc[t] = "take"
  /\ \E res \in xSemaphoreTake(xSemaphore[Grp(t)]) :
       IF TakeSucceeded(res)
       THEN /\ cycleCap = 0 \/ cycles[t] < cycleCap
            /\ xSemaphore' = [xSemaphore EXCEPT ![Grp(t)] = 0]
            /\ pc' = [pc EXCEPT ![t] = "check"]
            /\ cycles' = [cycles EXCEPT ![t] = IF cycleCap = 0 THEN @ ELSE @ + 1]
            /\ cycFault' = [cycFault EXCEPT ![t] = FALSE]
            /\ cycPrints' = [cycPrints EXCEPT ![t] = 0]
       ELSE /\ pc' = [pc EXCEPT ![t] = "miss"]
            /\ UNCHANGED << xSemaphore, cycVars >>
  /\ Stepped(t, FALSE)
  /\ UNCHANGED << envVars, xTicksToDelay, started, crashed, spawned, pulSharedVariable, xBlockTime,
                  cell, sCheckVariableToUse, ulExpectedValue, ulCounter, sError,
                  sCheckVariables, sNextCheckVariable, chkVars, incNow, incPrev >>

\* Mutant of YieldsAfterMiss: the task retries at once.
RetriesAtOnce(blockTime) == FALSE

\* Line 256: taskYIELD is called when the task does not block on the take.
YieldsAfterMiss(blockTime) == blockTime = 0

\* Lines 254-263: after a failed take a polling task yields; a blocking
\* task, whose take has timed out, goes straight back to the take.
YieldOrRetry(t) ==
  /\ ~crashed
  /\ pc[t] = "miss"
  /\ pc' = [pc EXCEPT ![t] = "take"]
  /\ Stepped(t, YieldsAfterMiss(xBlockTime[Grp(t)]))
  /\ UNCHANGED << envVars, xTicksToDelay, startVars, cell, sCheckVariableToUse, ulExpectedValue,
                  ulCounter, sError, sCheckVariables, sNextCheckVariable, chkVars,
                  cycVars, incNow, incPrev >>

\* Lines 207-216: the pre-condition check, then the loop starts at 0.
PreCheck(t) ==
  /\ ~crashed
  /\ pc[t] = "check"
  /\ \E v \in Loads(Grp(t)) :
       IF v # ulExpectedValue[t]
       THEN /\ sError' = [sError EXCEPT ![t] = pdTRUE]
            /\ cycFault' = [cycFault EXCEPT ![t] = TRUE]
            /\ cycPrints' = [cycPrints EXCEPT ![t] = @ + 1]
       ELSE UNCHANGED << sError, cycFault, cycPrints >>
  /\ ulCounter' = [ulCounter EXCEPT ![t] = 0]
  /\ pc' = [pc EXCEPT ![t] = "write"]
  /\ Stepped(t, FALSE)
  /\ UNCHANGED << envVars, xTicksToDelay, startVars, cell, sCheckVariableToUse, ulExpectedValue,
                  sCheckVariables, sNextCheckVariable, chkVars, cycles,
                  incNow, incPrev >>

\* Mutant of SharedOf: every task is handed the variable of the first group.
SharedOfFirstGroup(t) == 0

\* Line 186: the variable task t works on is the one of its parameter block.
SharedOf(t) == Grp(t)

\* Line 218: *pulSharedVariable = ulCounter.  Through a NULL pointer the
\* store faults or is dropped.
WriteShared(t) ==
  /\ ~crashed
  /\ pc[t] = "write"
  /\ IF pulSharedVariable[Grp(t)] = NULL
     THEN /\ \E storeFaults \in BOOLEAN : crashed' = storeFaults
          /\ UNCHANGED cell
     ELSE /\ cell' = [cell EXCEPT ![SharedOf(t)] = ulCounter[t]]
          /\ UNCHANGED crashed
  /\ pc' = [pc EXCEPT ![t] = "read"]
  /\ Stepped(t, FALSE)
  /\ UNCHANGED << envVars, xTicksToDelay, started, spawned, xSemaphore, pulSharedVariable,
                  xBlockTime, sCheckVariableToUse, ulExpectedValue, ulCounter,
                  sError, sCheckVariables, sNextCheckVariable, chkVars, cycVars,
                  incNow, incPrev >>

\* Mutant of LoopContinues: '<' for '<='.
LoopStopsEarly(counter, expected) == counter < expected

\* Line 216: the loop condition, evaluated after ulCounter++.
LoopContinues(counter, expected) == counter <= expected

\* Lines 220-228 and the loop step of line 216: the read-back.
ReadBack(t) ==
  /\ ~crashed
  /\ pc[t] = "read"
  /\ \E v \in Loads(Grp(t)) :
       IF v # ulCounter[t]
       THEN /\ sError' = [sError EXCEPT ![t] = pdTRUE]
            /\ cycFault' = [cycFault EXCEPT ![t] = TRUE]
            /\ cycPrints' = [cycPrints EXCEPT ![t] =
                               IF sError[t] = pdFALSE THEN @ + 1 ELSE @]
       ELSE UNCHANGED << sError, cycFault, cycPrints >>
  /\ ulCounter' = [ulCounter EXCEPT ![t] = @ + 1]
  /\ pc' = [pc EXCEPT ![t] =
              IF LoopContinues(ulCounter[t] + 1, ulExpectedValue[t])
              THEN "write" ELSE "give"]
  /\ Stepped(t, FALSE)
  /\ UNCHANGED << envVars, xTicksToDelay, startVars, cell, sCheckVariableToUse, ulExpectedValue,
                  sCheckVariables, sNextCheckVariable, chkVars, cycles,
                  incNow, incPrev >>

\* Lines 233-237: release; a rejected release is an error.
Give(t) ==
  /\ ~crashed
  /\ pc[t] = "give"
  /\ IF xSemaphoreGive(xSemaphore[Grp(t)]) = pdFALSE
     THEN /\ sError' = [sError EXCEPT ![t] = pdTRUE]
          /\ cycFault' = [cycFault EXCEPT ![t] = TRUE]
          /\ cycPrints' = [cycPrints EXCEPT ![t] = @ + 1]
          /\ UNCHANGED xSemaphore
     ELSE /\ xSemaphore' = [xSemaphore EXCEPT ![Grp(t)] = 1]
          /\ UNCHANGED << sError, cycFault, cycPrints >>
  /\ pc' = [pc EXCEPT ![t] = "incr"]
  /\ Stepped(t, FALSE)
  /\ UNCHANGED << envVars, xTicksToDelay, started, crashed, spawned, pulSharedVariable, xBlockTime,
                  cell, sCheckVariableToUse, ulExpectedValue, ulCounter,
                  sCheckVariables, sNextCheckVariable, chkVars, cycles,
                  incNow, incPrev >>

\* Mutants of MayIncrement: the error flag is not tested; it is tested
\* the wrong way round; the index is not tested.
IncrementUnchecked(err, index) == err = pdFALSE
IncrementDespiteError(err, index) == index < semtstNUM_TASKS
IncrementOnError(err, index) == err = pdTRUE /\ index < semtstNUM_TASKS

\* Lines 239-241: the conditions under which the check variable is incremented.
MayIncrement(err, index) == err = pdFALSE /\ index < semtstNUM_TASKS

\* Lines 239-245: the progress signal.  A store beyond the end of
\* sCheckVariables is taken as a fault of the program.
Increment(t) ==
  /\ ~crashed
  /\ pc[t] = "incr"
  /\ LET i == sCheckVariableToUse[t] IN
       IF MayIncrement(sError[t], i)
       THEN IF i \in Indices
            THEN /\ sCheckVariables' = [sCheckVariables EXCEPT ![i] = ShortInc(@)]
                 /\ incNow' = [incNow EXCEPT ![i] = TRUE]
                 /\ UNCHANGED crashed
            ELSE /\ crashed' = TRUE
                 /\ UNCHANGED << sCheckVariables, incNow >>
       ELSE UNCHANGED << sCheckVariables, incNow, crashed >>
  /\ pc' = [pc EXCEPT ![t] = "delay"]
  /\ Stepped(t, FALSE)
  /\ UNCHANGED << envVars, xTicksToDelay, started, spawned, xSemaphore,
                  pulSharedVariable, xBlockTime, cell, sCheckVariableToUse,
                  ulExpectedValue, ulCounter, sError, sNextCheckVariable, chkVars,
                  cycVars, incPrev >>

\* Mutant of DelayTicks: the block time is not scaled.
DelayTicksUnscaled(blockTime) == blockTime

\* Line 252: the ticks handed to vTaskDelay.
DelayTicks(blockTime) == blockTime * semtstDELAY_FACTOR

\* Line 252: vTaskDelay, called by every task, then back to the top of the
\* loop.  The task gives the processor up: for the ticks asked for, or, with
\* 0 ticks, to the other ready tasks.
Delay(t) ==
  /\ ~crashed
  /\ pc[t] = "delay"
  /\ xTicksToDelay' = [xTicksToDelay EXCEPT ![t] = DelayTicks(xBlockTime[Grp(t)])]
  /\ pc' = [pc EXCEPT ![t] = "take"]
  /\ Stepped(t, TRUE)
  /\ UNCHANGED << envVars, startVars, cell, sCheckVariableToUse, ulExpectedValue,
                  ulCounter, sError, sCheckVariables, sNextCheckVariable, chkVars,
                  cycVars, incNow, incPrev >>

\* The loop of lines 199-264.
TaskLoop(t) ==
  \/ Take(t) \/ YieldOrRetry(t) \/ PreCheck(t) \/ WriteShared(t) \/ ReadBack(t)
  \/ Give(t) \/ Increment(t) \/ Delay(t)

prvSemaphoreTest(t) == AllocIndex(t) \/ TaskSetup(t) \/ TaskLoop(t)

(***************************************************************************)
(* xAreSemaphoreTasksStillRunning (lines 269-285).  The tracked tasks may  *)
(* preempt the caller, so each read of sCheckVariables is a step.          *)
(***************************************************************************)
\* Line 272: a call begins.
CheckBegin ==
  /\ ~crashed
  /\ Scheduled(Supervisor, FALSE)
  /\ chkPc = "idle"
  /\ polls < MaxPolls
  /\ polls' = polls + 1
  /\ xTask' = 0
  /\ xReturn' = pdTRUE
  /\ chkPc' = "cmp"
  /\ changed' = [i \in Indices |-> FALSE]
  /\ incPrev' = incNow
  /\ incNow' = [i \in Indices |-> FALSE]
  /\ stepPrev' = stepNow
  /\ stepNow' = [g \in Groups |-> FALSE]
  /\ UNCHANGED << envVars, xTicksToDelay, startVars, cell, taskVars, sCheckVariables,
                  sNextCheckVariable, sLastCheckVariables, xCompared, cycVars, quietGap >>

\* Mutants of StillRunning: one changed index is enough; the last index
\* compared decides.
StillRunningAny(ret, last, live) == IF last # live THEN pdTRUE ELSE ret
StillRunningLast(ret, last, live) == last # live

\* Lines 276-279: xReturn after the comparison of one index.
StillRunning(ret, last, live) == IF last = live THEN pdFALSE ELSE ret

CheckCompare ==
  /\ ~crashed
  /\ Scheduled(Supervisor, FALSE)
  /\ chkPc = "cmp"
  /\ xReturn' = StillRunning(xReturn, sLastCheckVariables[xTask], sCheckVariables[xTask])
  /\ changed' = [changed EXCEPT ![xTask] = sLastCheckVariables[xTask] # sCheckVariables[xTask]]
  /\ xCompared' = sCheckVariables[xTask]
  /\ chkPc' = "store"
  /\ UNCHANGED << envVars, xTicksToDelay, startVars, cell, taskVars, sCheckVariables,
                  sNextCheckVariable, sLastCheckVariables, xTask, cycVars,
                  polls, incNow, incPrev, stepNow, stepPrev, quietGap >>

\* Mutant of AfterStore: the loop is left at the first unchanged index.
AfterStoreEarlyExit(task, ret) ==
  IF ret = pdFALSE \/ task + 1 >= semtstNUM_TASKS THEN "ret" ELSE "cmp"

\* Lines 274 and 284: after the store of index 'task', the loop goes on to
\* the next index until all of them are done.
AfterStore(task, ret) == IF task + 1 < semtstNUM_TASKS THEN "cmp" ELSE "ret"

\* Line 281 and the loop step of line 274.
CheckStore ==
  /\ ~crashed
  /\ Scheduled(Supervisor, FALSE)
  /\ chkPc = "store"
  /\ sLastCheckVariables' = [sLastCheckVariables EXCEPT ![xTask] = sCheckVariables[xTask]]
  /\ chkPc' = AfterStore(xTask, xReturn)
  /\ xTask' = xTask + 1
  /\ UNCHANGED << envVars, xTicksToDelay, startVars, cell, taskVars, sCheckVariables,
                  sNextCheckVariable, xReturn, xCompared, cycVars, callHist >>

\* Line 284: the call returns xReturn.
CheckReturn ==
  /\ ~crashed
  /\ Scheduled(Supervisor, TRUE)
  /\ chkPc = "ret"
  /\ chkPc' = "idle"
  /\ quietGap' = TRUE
  /\ UNCHANGED << envVars, xTicksToDelay, startVars, cell, taskVars, sCheckVariables,
                  sNextCheckVariable, sLastCheckVariables, xTask, xReturn, xCompared,
                  cycVars, polls, changed, incNow, incPrev, stepNow, stepPrev >>

xAreSemaphoreTasksStillRunning ==
  CheckBegin \/ CheckCompare \/ CheckStore \/ CheckReturn

(***************************************************************************)
(* Specifications.                                                         *)
(***************************************************************************)
\* The harness from power-on: vStartSemaphoreTasks, then its tasks.
Next ==
  \/ vStartSemaphoreTasks
  \/ \E t \in Tasks : prvSemaphoreTest(t)

Spec == Init /\ [][Next]_vars

\* The state in which the four tasks of one call have started in the order
\* of their creation and stand before their first xSemaphoreTake.
Started(first) ==
  /\ started = 1
  /\ crashed = FALSE
  /\ spawned = {0, 1}
  /\ xSemaphore = [g \in Groups |-> IF g \in {0, 1} THEN 1 ELSE 0]
  /\ pulSharedVariable = [g \in Groups |-> IF g \in {0, 1} THEN "cell" ELSE NULL]
  /\ cell = [g \in Groups |-> IF g \in {0, 1} THEN InitialValue(g) ELSE 0]
  /\ xBlockTime = [g \in Groups |-> IF g = 1 THEN SecondBlockTime ELSE 0]
  /\ pc = [t \in Tasks |-> IF t < semtstNUM_TASKS THEN "take" ELSE "none"]
  /\ sCheckVariableToUse = [t \in Tasks |-> IF t < semtstNUM_TASKS THEN t ELSE 0]
  /\ ulExpectedValue = [t \in Tasks |->
                          IF t < semtstNUM_TASKS THEN ExpectedFor(xBlockTime[Grp(t)])
                          ELSE 0]
  /\ ulCounter = [t \in Tasks |-> 0]
  /\ sError = [t \in Tasks |-> pdFALSE]
  /\ xTicksToDelay = [t \in Tasks |-> -1]
  /\ sCheckVariables = [i \in Indices |-> first]
  /\ sNextCheckVariable = semtstNUM_TASKS
  /\ sLastCheckVariables = [i \in Indices |-> first]
  /\ chkPc = "idle"
  /\ xTask = 0
  /\ xReturn = pdTRUE
  /\ xCompared = first
  /\ running = NoOne
  /\ preempts = 0
  /\ cycles = [t \in Tasks |-> 0]
  /\ cycFault = [t \in Tasks |-> FALSE]
  /\ cycPrints = [t \in Tasks |-> 0]
  /\ polls = 0
  /\ changed = [i \in Indices |-> FALSE]
  /\ incNow = [i \in Indices |-> FALSE]
  /\ incPrev = [i \in Indices |-> FALSE]
  /\ stepNow = [g \in Groups |-> FALSE]
  /\ stepPrev = [g \in Groups |-> FALSE]
  /\ quietGap = FALSE

\* The running harness and its supervisor.
PollInit ==
  /\ portTICK_PERIOD_MS = 1
  /\ heapFails = {}
  /\ startCalls = 1
  /\ primitiveBroken = FALSE
  /\ cycleCap = MaxCycles
  /\ preemptCap = MaxPreempt
  /\ shortMax = SHRT_MAX
  /\ Started(0)

PollNext ==
  \/ \E t \in Tasks : TaskLoop(t)
  \/ xAreSemaphoreTasksStillRunning

PollSpec == PollInit /\ [][PollNext]_vars

\* The harness with a defective semaphore, which may grant a take while the
\* semaphore is held.  One of the two groups was not created (its parameter
\* block could not be allocated).
FaultyInit ==
  /\ portTICK_PERIOD_MS = 1
  /\ heapFails \in { {"params1"}, {"params2"} }
  /\ startCalls = 1
  /\ primitiveBroken = TRUE
  /\ cycleCap = MaxFaultCycles
  /\ preemptCap = MaxFaultPreempt
  /\ shortMax = SHRT_MAX
  /\ ProgramInit(0)

FaultySpec == FaultyInit /\ [][Next]_vars

\* The harness on a heap that fails at one allocation site, or at none.
AllocInit ==
  /\ portTICK_PERIOD_MS = 1
  /\ heapFails \in { {} } \cup { {site} : site \in AllocSites }
  /\ startCalls = 1
  /\ primitiveBroken = FALSE
  /\ cycleCap = MaxCycles
  /\ preemptCap = MaxPreempt
  /\ shortMax = SHRT_MAX
  /\ ProgramInit(0)

AllocSpec == AllocInit /\ [][Next]_vars

\* The running harness after every task has completed SHRT_MAX cycles.
LongRunInit ==
  /\ portTICK_PERIOD_MS = 1
  /\ heapFails = {}
  /\ startCalls = 1
  /\ primitiveBroken = FALSE
  /\ cycleCap = MaxCycles
  /\ preemptCap = MaxPreempt
  /\ shortMax = SHRT_MAX
  /\ Started(SHRT_MAX)

LongRunSpec == LongRunInit /\ [][PollNext]_vars

\* Tick periods of a build, in ms: the nominal one, the longest that still
\* gives the second group a block time of one tick, and longer ones.
TickPeriods == { 1, xBlockTimeMs, xBlockTimeMs + 1, 2 * xBlockTimeMs }

\* The harness from power-on in a build with one of these tick periods.
TickInit ==
  /\ portTICK_PERIOD_MS \in TickPeriods
  /\ heapFails = {}
  /\ startCalls = 1
  /\ primitiveBroken = FALSE
  /\ cycleCap = MaxCycles
  /\ preemptCap = MaxPreempt
  /\ shortMax = SHRT_MAX
  /\ ProgramInit(0)

TickSpec == TickInit /\ [][Next]_vars

\* The application calls vStartSemaphoreTasks a second time while the four
\* tasks of the first call are running: four more tasks draw indices.
TwiceInit ==
  /\ portTICK_PERIOD_MS = 1
  /\ heapFails = {}
  /\ startCalls = 2
  /\ primitiveBroken = FALSE
  /\ cycleCap = MaxCycles
  /\ preemptCap = MaxPreempt
  /\ shortMax = SHRT_MAX
  /\ Started(0)

TwiceSpec == TwiceInit /\ [][Next]_vars

\* One group of the harness, followed for ever: any number of cycles and of
\* preemptions.  The scheduler is fair: a task that is ready keeps getting
\* the processor, and nothing more is said of the order.
LiveInit ==
  /\ portTICK_PERIOD_MS = 1
  /\ heapFails \in { {"params1"}, {"params2"} }
  /\ startCalls = 1
  /\ primitiveBroken = FALSE
  /\ cycleCap = 0
  /\ preemptCap = 0
  /\ shortMax = LiveShortMax
  /\ ProgramInit(0)

LiveSpec ==
  /\ LiveInit
  /\ [][Next]_vars
  /\ WF_vars(vStartSemaphoreTasks)
  /\ \A t \in Tasks : WF_vars(prvSemaphoreTest(t))

(***************************************************************************)
(* Properties.                                                             *)
(***************************************************************************)
\* Task t is between a successful xSemaphoreTake and its xSemaphoreGive.
Holds(t) == pc[t] \in { "check", "write", "read", "give" }
Held(g) == \E t \in Tasks : Grp(t) = g /\ Holds(t)
\* Task t has drawn its check variable index.
Indexed(t) == pc[t] \notin { "none", "start" }
\* The step of task t that ends a cycle (lines 239-245).
IncrementStep(t) == pc[t] = "incr" /\ pc'[t] = "delay"

\* C1: in every reachable state in which the semaphore of a group is not
\* held by any task, the shared variable of the group has the value the
\* group was created with (0xff polling, 0xfff blocking).
C1_AtRest ==
  \A g \in spawned :
    (pulSharedVariable[g] # NULL /\ ~Held(g)) => cell[g] = InitialValue(g)

\* Both tasks of the blocking group have completed a cycle, the semaphore
\* is free and the variable is back at its expected value.
C1_Witness ==
  /\ 1 \in spawned /\ ~Held(1)
  /\ cycles[2] = 1 /\ cycles[3] = 1
  /\ cell[1] = semtstBLOCKING_EXPECTED_VALUE
  /\ cell[0] = semtstNON_BLOCKING_EXPECTED_VALUE

\* C2: the read-back of the counting loop returns the value the same task
\* just wrote, and the two tasks of a group are never both between take and
\* give, also when the task is preempted between the write and the read.
C2_ReadBack ==
  \A t \in Tasks :
    /\ pc[t] = "read" => Loads(Grp(t)) = { ulCounter[t] }
    /\ Holds(t) => ~Holds(Peer(t))

\* A task was preempted between its write and its read-back, and its peer
\* ran and missed the semaphore meanwhile.
C2_Witness ==
  \E t \in Tasks :
    /\ pc[t] = "read" /\ ulCounter[t] > 0
    /\ running # t /\ preempts > 0
    /\ pc[Peer(t)] = "miss"

\* C9: after one call of vStartSemaphoreTasks the indices drawn by the tasks
\* are pairwise distinct and lie in [0, N); the N tasks draw exactly 0..N-1.
C9_UniqueIndices ==
  started = 1 =>
    LET drawn == { t \in Tasks : Indexed(t) } IN
      /\ \A t \in drawn : sCheckVariableToUse[t] \in Indices
      /\ \A t, u \in drawn : t # u => sCheckVariableToUse[t] # sCheckVariableToUse[u]
      /\ sNextCheckVariable = Cardinality(drawn)
      /\ Cardinality(drawn) = semtstNUM_TASKS
           => { sCheckVariableToUse[t] : t \in drawn } = Indices

\* All four tasks have drawn an index, not in the order of their creation.
C9_Witness ==
  /\ \A t \in 0 .. (semtstNUM_TASKS - 1) : Indexed(t)
  /\ sCheckVariableToUse[3] = 0
  /\ sCheckVariableToUse[0] = 2
  /\ preempts > 0

\* Group g took no step since the previous call of the check began.
Stalled(g) == ~stepPrev[g] /\ ~stepNow[g]
\* No task took a step since the previous call of the check began.
NoStepSincePrevCall == \A g \in Groups : Stalled(g)
\* The comparisons of the current call found both check variables of group g changed.
Progressed(g) ==
  \A t \in Tasks : Grp(t) = g => changed[sCheckVariableToUse[t]]
\* The check has one result for all tasks: this is what it returns for group g.
Verdict(g) == xReturn

\* C3 as claimed: the check returns true exactly when every comparison found
\* a change, and a call that returns directly after another one, no task
\* having stepped since that one returned, returns false.
C3_Original ==
  chkPc = "ret" =>
    /\ xReturn = pdTRUE <=> \A i \in Indices : changed[i]
    /\ (polls >= 2 /\ quietGap) => xReturn = pdFALSE

\* C3 as amended: the check returns true exactly when every comparison found
\* a change, and it returns false when no task has stepped since the
\* previous call began.
C3_StillRunning ==
  chkPc = "ret" =>
    /\ xReturn = pdTRUE <=> \A i \in Indices : changed[i]
    /\ (polls >= 2 /\ NoStepSincePrevCall) => xReturn = pdFALSE

\* A call that found every index changed is followed by a call, with no task
\* step since the first one began, that returns false.
C3_Witness ==
  /\ chkPc = "ret" /\ polls = 2 /\ NoStepSincePrevCall
  /\ xReturn = pdFALSE
  /\ \A i \in Indices : sCheckVariables[i] = 1 /\ sLastCheckVariables[i] = 1

\* C4: when a call of the check is about to return, true or false, every
\* entry of the snapshot holds the live check variable, unless the variable
\* was incremented while the call was running (the entry then holds the
\* value live at its store).
C4_Snapshot ==
  chkPc = "ret" =>
    /\ xTask = semtstNUM_TASKS
    /\ \A i \in Indices : sLastCheckVariables[i] = sCheckVariables[i] \/ incNow[i]

\* A call returns false because index 0 is unchanged, and has still taken
\* the new values of the later indices into the snapshot.
C4_Witness ==
  /\ chkPc = "ret" /\ xReturn = pdFALSE
  /\ ~changed[0] /\ changed[3]
  /\ \A i \in Indices : ~incNow[i]
  /\ sLastCheckVariables[3] = 1 /\ sLastCheckVariables = sCheckVariables

\* C5 as claimed: when one group took no step over two consecutive calls
\* while the check variables of the other group advanced, the second call
\* returns failure for the stalled group and true for the other group.
C5_Original ==
  (chkPc = "ret" /\ polls >= 2) =>
    \A g, h \in spawned :
      (g # h /\ Stalled(g) /\ Progressed(h))
        => (Verdict(g) = pdFALSE /\ Verdict(h) = pdTRUE)

\* C5 as amended: when one group took no step over two consecutive calls,
\* the second call returns pdFALSE, its one result for all tasks, also when
\* the check variables of the other group advanced.
C5_StallDetected ==
  (chkPc = "ret" /\ polls >= 2) =>
    \A g \in spawned : Stalled(g) => xReturn = pdFALSE

\* The blocking group took no step over two calls, both check variables of
\* the polling group advanced, and the second call returns false.
C5_Witness ==
  /\ chkPc = "ret" /\ polls = 2
  /\ Stalled(1) /\ Progressed(0)
  /\ xReturn = pdFALSE

\* The check variable of task t, as a place in sCheckVariables.
Own(t) == sCheckVariableToUse[t]

C7_Monotone ==
  [][\A i \in Indices : sCheckVariables'[i] >= sCheckVariables[i]]_vars

\* A check variable has wrapped from 32767 to -32768 at the end of a
\* fault-free cycle.
C7_Witness ==
  \E t \in Tasks :
    /\ pc[t] = "delay" /\ sError[t] = pdFALSE
    /\ sCheckVariables[Own(t)] = SHRT_MIN

\* C8: the step that ends a cycle in which a check failed leaves every
\* check variable as it was.
C8_FaultedCycle ==
  [][\A t \in Tasks :
       (IncrementStep(t) /\ cycFault[t]) => UNCHANGED sCheckVariables]_vars

\* A task has ended its first cycle, in which a check failed, and its check
\* variable is still zero.
C8_Witness ==
  \E t \in Tasks :
    /\ pc[t] = "delay" /\ cycles[t] = 1
    /\ cycFault[t] /\ sError[t] = pdTRUE
    /\ sCheckVariables[Own(t)] = 0

\* The allocation sites of the group created first (0) or second (1).
SitesOf(g) ==
  IF g = 0 THEN { "params1", "sem1", "var1" } ELSE { "params2", "sem2", "var2" }

\* C10 as claimed: after vStartSemaphoreTasks, a group one of whose
\* allocations failed has no tasks and no store went through the NULL
\* pointer (neither a fault nor tasks left with a NULL pulSharedVariable);
\* a group whose allocations all succeeded has its tasks.
C10_AllocFailure ==
  started = 1 =>
    \A g \in {0, 1} :
      IF SitesOf(g) \cap heapFails # {}
      THEN g \notin spawned /\ ~crashed
      ELSE g \in spawned /\ pulSharedVariable[g] # NULL

\* The allocation of the first shared variable failed, and the polling
\* tasks were created all the same, with a NULL pulSharedVariable.
C10_Witness ==
  /\ heapFails = { "var1" } /\ started = 1 /\ ~crashed
  /\ 0 \in spawned /\ pulSharedVariable[0] = NULL
  /\ \E t \in Tasks : Grp(t) = 0 /\ pc[t] = "read"

\* C11: with a correct semaphore no task ever sets sError or prints the
\* error message, and xSemaphoreGive is reached only while the semaphore is
\* taken, by the one task that holds it.
C11_NoFault ==
  \A t \in Tasks :
    /\ sError[t] = pdFALSE /\ ~cycFault[t] /\ cycPrints[t] = 0
    /\ pc[t] = "give" =>
         /\ xSemaphore[Grp(t)] = 0
         /\ xSemaphoreGive(xSemaphore[Grp(t)]) = pdTRUE
         /\ ~Holds(Peer(t))

\* Both tasks of the blocking group have taken and given the semaphore in
\* turn, the second after a preemption of the first, and no flag is set.
C11_Witness ==
  /\ pc[2] = "incr" /\ pc[3] = "delay"
  /\ cycles[2] = 1 /\ cycles[3] = 1
  /\ xSemaphore[1] = 1 /\ preempts > 0
  /\ sError[2] = pdFALSE /\ sError[3] = pdFALSE

\* C12 as claimed: in one iteration of a task's loop the error message is
\* printed at most once, whatever checks fail.
C12_PrintedOnce ==
  \A t \in Tasks : cycPrints[t] <= 1

\* A task ends a cycle in which it printed the message twice: once for the
\* pre-condition or a read-back (lines 209, 224), once for the rejected
\* xSemaphoreGive (line 235).
C12_Witness ==
  \E t \in Tasks :
    /\ pc[t] = "incr" /\ cycPrints[t] = 2
    /\ xSemaphore[Grp(t)] = 1

\* C13 as claimed: a cycle in which a check failed has printed the error
\* message at least once by the time its checks are done, also when an
\* earlier cycle of the task was faulted.
C13_NoneSwallowed ==
  \A t \in Tasks :
    (pc[t] = "incr" /\ cycFault[t]) => cycPrints[t] >= 1

\* A task ends its second cycle, in which a read-back failed, without
\* having printed anything in it: sError was still set from the first.
C13_Witness ==
  \E t \in Tasks :
    /\ pc[t] = "incr" /\ cycles[t] = 2
    /\ cycFault[t] /\ cycPrints[t] = 0
    /\ sError[t] = pdTRUE

\* C14: a failed xSemaphoreTake of a task leads to the else branch of line
\* 254 and from there only back to the take; for a task with block time 0
\* the step back is a taskYIELD, which gives the processor up, so two failed
\* takes of a polling task always have a yield between them.
C14_YieldAfterMiss ==
  [][\A t \in Tasks :
       /\ pc[t] = "take" => pc'[t] \in { "take", "check", "miss" }
       /\ (pc[t] = "miss" /\ pc'[t] # "miss") =>
            /\ pc'[t] = "take"
            /\ xBlockTime[Grp(t)] = 0 => running' = NoOne]_vars

\* Polling task 0 has missed the semaphore, which its peer holds, and has
\* yielded: it stands before its next take and no one holds the processor
\* (the blocking tasks have not run, task 0 has had no cycle to delay after).
C14_Witness ==
  /\ pc[0] = "take" /\ cycles[0] = 0
  /\ Holds(1) /\ xSemaphore[0] = 0
  /\ pc[2] = "start" /\ pc[3] = "start"
  /\ running = NoOne /\ preempts = 1

\* C15 as claimed: after a completed cycle a task with a positive block time
\* sleeps for block time * semtstDELAY_FACTOR ticks before its next take,
\* and a task with block time 0 goes from the end of the cycle straight to
\* its next take and keeps the processor.
C15_Original ==
  [][\A t \in Tasks :
       /\ (xBlockTime[Grp(t)] > 0 /\ pc[t] = "delay" /\ pc'[t] # "delay") =>
            /\ pc'[t] = "take"
            /\ xTicksToDelay'[t] = xBlockTime[Grp(t)] * semtstDELAY_FACTOR
       /\ (xBlockTime[Grp(t)] = 0 /\ pc[t] = "incr" /\ pc'[t] # "incr") =>
            /\ pc'[t] = "take"
            /\ running' = t]_vars

\* C15 as amended: after a completed cycle every task calls vTaskDelay with
\* block time * semtstDELAY_FACTOR ticks before its next take and gives the
\* processor up with that call; for a task with block time 0 the call asks
\* for 0 ticks.
C15_Pacing ==
  [][\A t \in Tasks :
       /\ (pc[t] = "incr" /\ pc'[t] # "incr") => pc'[t] = "delay"
       /\ (pc[t] = "delay" /\ pc'[t] # "delay") =>
            /\ pc'[t] = "take"
            /\ xTicksToDelay'[t] = xBlockTime[Grp(t)] * semtstDELAY_FACTOR
            /\ xBlockTime[Grp(t)] = 0 => xTicksToDelay'[t] = 0
            /\ running' = NoOne]_vars

\* A polling task has ended a cycle and called vTaskDelay with 0 ticks, a
\* blocking task has ended one and called it with ten times its block time.
C15_Witness ==
  /\ pc[0] = "take" /\ cycles[0] = 1 /\ xTicksToDelay[0] = 0
  /\ pc[2] = "take" /\ cycles[2] = 1
  /\ xBlockTime[1] > 0
  /\ xTicksToDelay[2] = semtstDELAY_FACTOR * xBlockTime[1]

\* C16 as claimed: whatever the tick period, the second group is created
\* with a positive block time, every task counts to the value its group's
\* shared variable was initialised to, and the first pre-condition check of
\* a task passes.
C16_ExpectedMatches ==
  /\ \A g \in spawned : ~IsPollingGroup(g) => xBlockTime[g] > 0
  /\ \A t \in Tasks :
       /\ pc[t] \notin { "none", "start", "setup" }
            => ulExpectedValue[t] = InitialValue(Grp(t))
       /\ (pc[t] = "write" /\ cycles[t] = 1 /\ ulCounter[t] = 0)
            => sError[t] = pdFALSE

\* With a tick period above 100 ms the second group has block time 0, and
\* a task of it has failed the pre-condition check of its first cycle.
C16_Witness ==
  /\ portTICK_PERIOD_MS > xBlockTimeMs
  /\ 1 \in spawned /\ xBlockTime[1] = 0
  /\ \E t \in Tasks :
       /\ Grp(t) = 1 /\ cycles[t] = 1 /\ pc[t] = "write" /\ ulCounter[t] = 0
       /\ ulExpectedValue[t] = semtstNON_BLOCKING_EXPECTED_VALUE
       /\ cell[1] = semtstBLOCKING_EXPECTED_VALUE
       /\ sError[t] = pdTRUE

\* C17: a step of a task leaves the shared variable and the semaphore of
\* every other group, the check variable of every other index and the
\* snapshot of the check as they were; a failed take changes no shared
\* variable, no check variable and no semaphore at all.
C17_Frame ==
  [][\A t \in Tasks :
       (pc[t] # "none" /\ pc'[t] # pc[t]) =>
         /\ \A g \in Groups : g # Grp(t) =>
              cell'[g] = cell[g] /\ xSemaphore'[g] = xSemaphore[g]
         /\ \A i \in Indices : i # Own(t) => sCheckVariables'[i] = sCheckVariables[i]
         /\ sLastCheckVariables' = sLastCheckVariables
         /\ (pc[t] = "take" /\ pc'[t] = "miss")
              => UNCHANGED << cell, sCheckVariables, xSemaphore >>]_vars

\* A polling task has just written its shared variable while a task of the
\* blocking group stands preempted in the middle of its count and the
\* snapshot holds a progress value of another task.
C17_Witness ==
  /\ pc[0] = "read" /\ cell[0] = 0
  /\ Holds(2) /\ cell[1] # semtstBLOCKING_EXPECTED_VALUE /\ xSemaphore[1] = 0
  /\ sLastCheckVariables[1] = 1 /\ sCheckVariables[1] = 1

\* C18 as claimed: the value a call stores in the snapshot of an index
\* (line 281) is the live value the call compared with the old snapshot of
\* that index (line 276), also when the task increments in between.
C18_StoresCompared ==
  [][(chkPc = "store" /\ chkPc' # "store")
       => sLastCheckVariables'[xTask] = xCompared]_vars

\* The first call found index 0 unchanged at 0, the task incremented before
\* the store, and the snapshot now holds the 1 that was never compared: no
\* call has reported the increment and the next one cannot see it.
C18_Witness ==
  /\ chkPc = "ret" /\ polls = 1 /\ xReturn = pdFALSE
  /\ ~changed[0] /\ incNow[0]
  /\ sLastCheckVariables[0] = 1 /\ sCheckVariables[0] = 1

\* C20: when vStartSemaphoreTasks is called twice, no store goes beyond
\* sCheckVariables: an entry changes only by the step of lines 239-245 of
\* the task that drew its index, and that step of a task whose index is
\* semtstNUM_TASKS or more writes nothing.
C20_InBounds ==
  [][/\ ~crashed'
     /\ \A t \in Tasks :
          (IncrementStep(t) /\ Own(t) \notin Indices) => UNCHANGED sCheckVariables
     /\ \A i \in Indices :
          sCheckVariables'[i] # sCheckVariables[i]
            => \E t \in Tasks : IncrementStep(t) /\ Own(t) = i]_vars

\* After the second call the eight tasks hold the indices 0..7, and a task
\* with an index of semtstNUM_TASKS or more has run a fault-free cycle to
\* its end; the check variables show the cycles of the first four only.
C20_Witness ==
  /\ started = 2 /\ sNextCheckVariable = 2 * semtstNUM_TASKS
  /\ { Own(t) : t \in Tasks } = Tasks
  /\ \E t \in Tasks :
       /\ Own(t) >= semtstNUM_TASKS
       /\ pc[t] = "delay" /\ cycles[t] = 1 /\ sError[t] = pdFALSE
  /\ \A i \in Indices : sCheckVariables[i] = cycles[i]

\* Steps of task t: it acquires the semaphore; it executes its take while
\* the semaphore is available; it ends a cycle with an increment of its
\* check variable.
Acquires(t) == pc[t] = "take" /\ pc'[t] = "check"
TakesWhileFree(t) ==
  pc[t] = "take" /\ xSemaphore[Grp(t)] = 1 /\ pc'[t] # "take"
Progresses(t) ==
  IncrementStep(t) /\ sCheckVariables'[Own(t)] # sCheckVariables[Own(t)]

====
